---- MODULE Spec2Model ----
(***************************************************************************)
(* Grok 4 chat client (src/src/App.vue, with the settings dialog that is   *)
(* appended to the same file) and its forwarding server (src/server.ts).   *)
(*                                                                         *)
(* Text is modelled as a sequence of atoms: an atom is one character or    *)
(* one literal chunk of a template string.  Concatenation is \o.           *)
(* An optional value (a JSON field or header that may be missing) is a     *)
(* sequence of length 0 or 1.                                              *)
(*                                                                         *)
(* One step of the model is one macrotask of the page's event loop: a DOM  *)
(* event handler, or the continuation of sendMessage after an awaited      *)
(* network promise settles.  `await nextTick()` (scrollToBottom) resolves  *)
(* in microtasks, so no handler runs between the code before and after it. *)
(* import.meta.env.PROD is fixed by the build; a dispatch takes either     *)
(* value, which covers both builds.                                        *)
(* The remote completion endpoint answers every request of one session the *)
(* same way (remote); the sessions together cover each of its answers.     *)
(* A session is one page load: Init is the mounted page.                   *)
(***************************************************************************)
EXTENDS Integers, Sequences, FiniteSets, TLC

VARIABLES
    messages,         \* App.vue:15   the turn log
    currentMessage,   \* App.vue:16   the draft text
    isLoading,        \* App.vue:17   request-in-flight flag
    showApiKeyModal,  \* App.vue:18
    apiKey,           \* App.vue:21   stored credential
    useProxy,         \* App.vue:22   stored forwarder preference
    localApiKey,      \* App.vue:527  key field of the settings dialog
    localUseProxy,    \* App.vue:528  checkbox of the settings dialog
    now,              \* Date.now(), in milliseconds
    calls,            \* the sendMessage invocations suspended at an await
    remote,           \* how the remote completion endpoint answers in this session
    download,         \* App.vue:199-207  the file the last export handed to the browser
    server            \* server.ts:30-70  the request the forwarder is handling

vars == <<messages, currentMessage, isLoading, showApiKeyModal, apiKey, useProxy,
          localApiKey, localUseProxy, now, calls, remote, download, server>>

\* Bounds of the model.
MaxLog == 2
MaxClock == 1
MaxPieces == 2

----------------------------------------------------------------------------
\* Text helpers.

None == <<>>
Some(x) == <<x>>

IsSpace(c) == c \in {" ", "\n", "\t"}

RECURSIVE TrimStart(_)
TrimStart(s) == IF s # <<>> /\ IsSpace(Head(s)) THEN TrimStart(Tail(s)) ELSE s

RECURSIVE TrimEnd(_)
TrimEnd(s) ==
    IF s # <<>> /\ IsSpace(s[Len(s)]) THEN TrimEnd(SubSeq(s, 1, Len(s) - 1)) ELSE s

\* String.prototype.trim
Trim(s) == TrimEnd(TrimStart(s))

\* String.prototype.includes
Includes(s, t) ==
    \E i \in 0..(Len(s) - Len(t)) : SubSeq(s, i + 1, i + Len(t)) = t

\* Number.prototype.toString, as one atom
NumStr(n) == <<ToString(n)>>

Last(log) == log[Len(log)]

Remove(seq, i) == SubSeq(seq, 1, i - 1) \o SubSeq(seq, i + 1, Len(seq))

----------------------------------------------------------------------------
\* Computed values of the page.

\* App.vue:25
hasApiKey == Trim(apiKey) # <<>>

\* canSend without the in-flight check.
canSend_NoFlagCheck == Trim(currentMessage) # <<>> /\ hasApiKey

\* canSend without the credential check.
canSend_NoKeyCheck == Trim(currentMessage) # <<>> /\ ~isLoading

\* App.vue:26
canSend == Trim(currentMessage) # <<>> /\ ~isLoading /\ hasApiKey

----------------------------------------------------------------------------
\* Requests.

XaiUrl == "https://api.x.ai/v1/chat/completions"
ProxyUrlProd == "/api/chat"
ProxyUrlDev == "http://localhost:3001/api/chat"

\* App.vue:72-73 and 94-95: the system entry is a literal of the source.
SystemPrompt ==
    <<"You are Grok, a helpful and witty AI assistant. Be conversational, helpful, and occasionally humorous.">>

\* A message list that keeps only the newest turn (a history window of one).
OutboundMessages_Window(log) ==
    <<[role |-> "system", content |-> SystemPrompt]>>
        \o [i \in 1..(IF log = <<>> THEN 0 ELSE 1) |->
               [role |-> Last(log).role, content |-> Last(log).content]]

\* App.vue:69-79 and 91-101: the system entry, then every stored turn's pair.
OutboundMessages(log) ==
    <<[role |-> "system", content |-> SystemPrompt]>>
        \o [i \in 1..Len(log) |-> [role |-> log[i].role, content |-> log[i].content]]

\* App.vue:61-81: the request of the forwarder path.
ProxyRequest(prod, key, log) ==
    [url |-> IF prod THEN ProxyUrlProd ELSE ProxyUrlDev,
     method |-> "POST",
     authorization |-> None,
     body |-> [apiKey |-> Some(key),
               messages |-> OutboundMessages(log),
               model |-> None, stream |-> None, temperature |-> None]]

\* A direct request that also carries the credential in its body.
DirectRequest_KeyInBody(key, log) ==
    [url |-> XaiUrl,
     method |-> "POST",
     authorization |-> Some(<<"Bearer ">> \o key),
     body |-> [apiKey |-> Some(key),
               messages |-> OutboundMessages(log),
               model |-> Some("grok-4"), stream |-> Some(FALSE),
               temperature |-> Some("0.7")]]

\* App.vue:84-106: the request of the direct path.
DirectRequest(key, log) ==
    [url |-> XaiUrl,
     method |-> "POST",
     authorization |-> Some(<<"Bearer ">> \o key),
     body |-> [apiKey |-> None,
               messages |-> OutboundMessages(log),
               model |-> Some("grok-4"), stream |-> Some(FALSE),
               temperature |-> Some("0.7")]]

\* App.vue:59-107: the path is chosen by the stored preference at dispatch.
BuildRequest(viaProxy, prod, key, log) ==
    IF viaProxy THEN ProxyRequest(prod, key, log) ELSE DirectRequest(key, log)

----------------------------------------------------------------------------
\* Responses.  A body is a JSON object with the fields the code reads, or
\* text that is not JSON.

Obj(error, details, reply) ==
    [kind |-> "obj", raw |-> <<>>, error |-> error, details |-> details, reply |-> reply]
Raw(t) ==
    [kind |-> "raw", raw |-> t, error |-> None, details |-> None, reply |-> None]

\* JSON.stringify of an object body / the text of a raw body (response.text()).
BodyText(b) ==
    IF b.kind = "raw" THEN b.raw
    ELSE <<"{">>
         \o (IF b.error # None THEN <<"\"error\":\"">> \o b.error[1] \o <<"\"">> ELSE <<>>)
         \o (IF b.error # None /\ b.details # None THEN <<",">> ELSE <<>>)
         \o (IF b.details # None THEN <<"\"details\":\"">> \o b.details[1] \o <<"\"">> ELSE <<>>)
         \o (IF b.reply # None
             THEN <<"\"choices\":[{\"message\":{\"content\":\"">> \o b.reply[1] \o <<"\"}}]">>
             ELSE <<>>)
         \o <<"}">>

Response(status, statusText, body) ==
    [net |-> TRUE, status |-> status, statusText |-> statusText, body |-> body]

\* fetch rejects: no response at all.
NetFail == [net |-> FALSE, status |-> 0, statusText |-> <<>>, body |-> Raw(<<>>)]

\* Response.ok
Ok(r) == r.status \in 200..299

\* What the remote completion endpoint can answer to a request.
UpstreamOutcomes ==
    { NetFail,
      Response(200, <<"OK">>, Obj(None, None, Some(<<"h","e","y">>))),
      Response(200, <<"OK">>, Obj(None, None, None)),
      Response(200, <<"OK">>, Raw(<<"<html>">>)),
      Response(401, <<"Unauthorized">>, Obj(Some(<<"b","a","d"," ","k","e","y">>), None, None)),
      Response(429, <<>>, Obj(None, Some(<<"s","l","o","w">>), None)),
      Response(500, <<"Internal Server Error">>, Raw(<<"o","o","p","s">>)) }

\* http.STATUS_CODES, which express uses for the status line it writes.
StatusCodes(status) ==
    CASE status = 200 -> <<"OK">>
      [] status = 400 -> <<"Bad Request">>
      [] status = 401 -> <<"Unauthorized">>
      [] status = 429 -> <<"Too Many Requests">>
      [] status = 500 -> <<"Internal Server Error">>
      [] OTHER -> <<>>

\* JS truthiness of an optional string field.
Truthy(opt) == opt # None /\ opt[1] # <<>>

\* server.ts:30-70: POST /api/chat, given what the upstream fetch does.
apiChat(body, up) ==
    IF ~Truthy(body.apiKey)
    THEN Response(400, StatusCodes(400), Obj(Some(<<"API key is required">>), None, None))
    ELSE IF ~up.net
    THEN Response(500, StatusCodes(500),
                  Obj(Some(<<"Internal server error">>), Some(<<"fetch failed">>), None))
    ELSE IF ~Ok(up)
    THEN Response(up.status, StatusCodes(up.status),
                  Obj(Some(<<"xAI API Error: ">> \o NumStr(up.status) \o <<" ">> \o up.statusText),
                      Some(BodyText(up.body)), None))
    ELSE IF up.body.kind = "raw"
    THEN Response(500, StatusCodes(500),
                  Obj(Some(<<"Internal server error">>),
                      Some(<<"Unexpected token in JSON">>), None))
    ELSE Response(200, StatusCodes(200), up.body)

\* What fetch can settle with at the client, for a request.
ClientOutcomes(req) ==
    IF req.url = XaiUrl
    THEN {remote}
    ELSE {NetFail, apiChat(req.body, remote)}

----------------------------------------------------------------------------
\* sendMessage, App.vue:40-148.

\* App.vue:43-48
UserTurn(t, text) ==
    [id |-> ToString(t), role |-> "user", content |-> Trim(text), timestamp |-> t]

\* App.vue:125-130
AssistantTurn(t, text) ==
    [id |-> ToString(t + 1), role |-> "assistant", content |-> text, timestamp |-> t]

ProxyHint ==
    <<"\n\nTry enabling proxy mode in settings if you're experiencing CORS issues.">>

\* App.vue:136-143: the turn of the catch block; the hint reads useProxy then.
ErrorTurn(t, msg, proxyNow) ==
    [id |-> ToString(t + 1), role |-> "assistant",
     content |-> <<"Sorry, I encountered an error: ">> \o msg
                 \o (IF ~proxyNow THEN ProxyHint ELSE <<>>),
     timestamp |-> t]

\* The detail with the two fields read in the other order.
ErrorDetail_DetailsFirst(b) ==
    LET errorData == IF b.kind = "obj" THEN b ELSE Obj(Some(BodyText(b)), None, None)
    IN  IF Truthy(errorData.details) THEN errorData.details[1]
        ELSE IF Truthy(errorData.error) THEN errorData.error[1]
        ELSE <<"Unknown error">>

\* App.vue:110-121: the message of the Error thrown for a non-success status.
ErrorDetail(b) ==
    LET errorData == IF b.kind = "obj" THEN b ELSE Obj(Some(BodyText(b)), None, None)
    IN  IF Truthy(errorData.error) THEN errorData.error[1]
        ELSE IF Truthy(errorData.details) THEN errorData.details[1]
        ELSE <<"Unknown error">>

ApiErrorMessage(r) ==
    <<"API Error: ">> \o NumStr(r.status) \o <<" ">> \o r.statusText \o <<" - ">>
        \o ErrorDetail(r.body)

\* What the user can type into the draft, and into the key field.
Drafts == { <<>>, <<" ">>, <<" ", "h", "i", " ">> }
KeyInputs == { <<>>, <<" ", "k", " ">> }
StoredKeys == { <<>>, <<"k">> }

\* App.vue:40-52 (and 55-107, which run before any other handler can): an
\* accepted send appends the user turn, clears the draft, raises the flag and
\* dispatches the request; a declined one returns at line 41.  The function
\* is also a step of its own, callable in every state: its guard, not the
\* disabled controls of the template, is what declines a send.
sendMessage ==
    IF canSend /\ Len(messages) < MaxLog
    THEN LET log == Append(messages, UserTurn(now, currentMessage))
         IN  /\ messages' = log
             /\ currentMessage' = <<>>
             /\ isLoading' = TRUE
             /\ \E prod \in BOOLEAN :
                  calls' = Append(calls,
                                  [pc |-> "fetch",
                                   req |-> BuildRequest(useProxy, prod, apiKey, log),
                                   resp |-> NetFail])
             /\ UNCHANGED <<showApiKeyModal, apiKey, useProxy, localApiKey,
                            localUseProxy, now, remote, download, server>>
    ELSE /\ ~canSend
         /\ UNCHANGED vars

\* App.vue:151-156 with 257-264: Enter without Shift in the draft field, which
\* is disabled while no key is stored.
handleKeydown == hasApiKey /\ sendMessage

\* App.vue:265: the send button, disabled unless canSend.
clickSend == canSend /\ sendMessage

\* App.vue:258: v-model of the draft field.
inputDraft ==
    /\ hasApiKey
    /\ \E d \in Drafts : d # currentMessage /\ currentMessage' = d
    /\ UNCHANGED <<messages, isLoading, showApiKeyModal, apiKey, useProxy, localApiKey,
                   localUseProxy, now, calls, remote, download, server>>

\* A catch block that only logs the error: no turn is appended.
Catch_Silent(i, msg) ==
    /\ messages' = messages
    /\ isLoading' = FALSE
    /\ calls' = Remove(calls, i)

\* A catch block that replaces the log by the error turn.
Catch_Replace(i, msg) ==
    /\ messages' = <<ErrorTurn(now, msg, useProxy)>>
    /\ isLoading' = FALSE
    /\ calls' = Remove(calls, i)

\* A catch block without the finally: the flag stays set.
Catch_FlagStuck(i, msg) ==
    /\ messages' = Append(messages, ErrorTurn(now, msg, useProxy))
    /\ isLoading' = isLoading
    /\ calls' = Remove(calls, i)

\* App.vue:134-147: catch and finally.
Catch(i, msg) ==
    /\ messages' = Append(messages, ErrorTurn(now, msg, useProxy))
    /\ isLoading' = FALSE
    /\ calls' = Remove(calls, i)

\* App.vue:62/84 and 109: the awaited fetch settles.
fetchSettles(i) ==
    /\ calls[i].pc = "fetch"
    /\ \E o \in ClientOutcomes(calls[i].req) :
         IF ~o.net
         THEN Catch(i, <<"Failed to fetch">>)
         ELSE /\ calls' = [calls EXCEPT ![i].pc = IF Ok(o) THEN "json" ELSE "text",
                                        ![i].resp = o]
              /\ UNCHANGED <<messages, isLoading>>
    /\ UNCHANGED <<currentMessage, showApiKeyModal, apiKey, useProxy, localApiKey,
                   localUseProxy, now, remote, download, server>>

\* App.vue:110-122: the awaited response.text() settles.
textSettles(i) ==
    /\ calls[i].pc = "text"
    /\ Catch(i, ApiErrorMessage(calls[i].resp))
    /\ UNCHANGED <<currentMessage, showApiKeyModal, apiKey, useProxy, localApiKey,
                   localUseProxy, now, remote, download, server>>

\* App.vue:124-133 and 145-147: the awaited response.json() settles.
jsonSettles(i) ==
    /\ calls[i].pc = "json"
    /\ LET b == calls[i].resp.body
       IN  IF b.kind = "raw" THEN Catch(i, <<"Unexpected token in JSON">>)
           ELSE IF b.reply = None
           THEN Catch(i, <<"Cannot read properties of undefined">>)
           ELSE /\ messages' = Append(messages, AssistantTurn(now, b.reply[1]))
                /\ isLoading' = FALSE
                /\ calls' = Remove(calls, i)
    /\ UNCHANGED <<currentMessage, showApiKeyModal, apiKey, useProxy, localApiKey,
                   localUseProxy, now, remote, download, server>>

\* A clear that also forgets the stored credential.
clearChat_ResetsKey ==
    /\ Len(messages) # 0
    /\ messages' = <<>>
    /\ apiKey' = <<>>
    /\ UNCHANGED <<currentMessage, isLoading, showApiKeyModal, useProxy,
                   localApiKey, localUseProxy, now, calls, remote, download, server>>

\* App.vue:159-161 with 225: the Clear button, disabled on an empty log.
clearChat ==
    /\ Len(messages) # 0
    /\ messages' = <<>>
    /\ UNCHANGED <<currentMessage, isLoading, showApiKeyModal, apiKey, useProxy,
                   localApiKey, localUseProxy, now, calls, remote, download, server>>

----------------------------------------------------------------------------
\* The settings dialog, App.vue:509-647.

\* App.vue:222
openSettings ==
    /\ ~showApiKeyModal
    /\ showApiKeyModal' = TRUE
    /\ UNCHANGED <<messages, currentMessage, isLoading, apiKey, useProxy, localApiKey,
                   localUseProxy, now, calls, remote, download, server>>

\* App.vue:592: v-model of the key field.
inputKey ==
    /\ showApiKeyModal
    /\ \E k \in KeyInputs : k # localApiKey /\ localApiKey' = k
    /\ UNCHANGED <<messages, currentMessage, isLoading, showApiKeyModal, apiKey, useProxy,
                   localUseProxy, now, calls, remote, download, server>>

\* App.vue:611: v-model of the checkbox.
toggleProxy ==
    /\ showApiKeyModal
    /\ localUseProxy' = ~localUseProxy
    /\ UNCHANGED <<messages, currentMessage, isLoading, showApiKeyModal, apiKey, useProxy,
                   localApiKey, now, calls, remote, download, server>>

\* App.vue:546-548 with 574, 578, 642 and 561-565
closeModal ==
    /\ showApiKeyModal
    /\ showApiKeyModal' = FALSE
    /\ UNCHANGED <<messages, currentMessage, isLoading, apiKey, useProxy, localApiKey,
                   localUseProxy, now, calls, remote, download, server>>

\* App.vue:550-554, with the watcher of 532-537 that copies a changed key back.
saveApiKey ==
    /\ showApiKeyModal
    /\ apiKey' = Trim(localApiKey)
    /\ useProxy' = localUseProxy
    /\ localApiKey' = IF Trim(localApiKey) # apiKey THEN Trim(localApiKey) ELSE localApiKey
    /\ showApiKeyModal' = FALSE
    /\ UNCHANGED <<messages, currentMessage, isLoading, localUseProxy, now, calls,
                   remote, download, server>>

\* App.vue:643: the Save button, disabled on a blank key field.
clickSave == Trim(localApiKey) # <<>> /\ saveApiKey

\* App.vue:596: Enter in the key field.
keydownEnterKey == saveApiKey

----------------------------------------------------------------------------
\* The export, App.vue:164-208.

\* The calendar day of an instant, which is all that toLocaleDateString and
\* toISOString().split("T")[0] keep of it.
DayOf(t) == t \div 86400000

\* Date.prototype.toLocaleDateString, App.vue:184
LocaleDateString(t) == <<"day ", ToString(DayOf(t))>>

\* Date.prototype.toISOString().split("T")[0], App.vue:203
IsoDate(t) == <<"1970+", ToString(DayOf(t))>>

\* Date.prototype.toLocaleString, App.vue:190
LocaleString(t) == <<"day ", ToString(DayOf(t)), ", ms ", ToString(t % 86400000)>>

\* App.vue:187-192: the markup of one turn; the content is interpolated as
\* it is stored.
ExportTurn(msg) ==
    <<"<div class=\"message ", msg.role, "\"><div>">>
        \o msg.content
        \o <<"</div><div class=\"timestamp\">">>
        \o LocaleString(msg.timestamp)
        \o <<"</div></div>">>

\* App.vue:185-194: map and join("").
RECURSIVE ExportTurns(_)
ExportTurns(log) ==
    IF log = <<>> THEN <<>> ELSE ExportTurn(Head(log)) \o ExportTurns(Tail(log))

\* A document that also records the stored credential, in a meta element.
ExportHtml_WithKey(log, t) ==
    <<"<!DOCTYPE html><html><head><meta name=\"key\" content=\"">> \o apiKey
        \o <<"\"></head><body><div class=\"chat-export\"><h1>Grok 4 Chat - ">>
        \o LocaleDateString(t) \o <<"</h1>">>
        \o ExportTurns(log)
        \o <<"</div></body></html>">>

\* App.vue:165-197: the document, from the log and the instant of the export.
ExportHtml(log, t) ==
    <<"<!DOCTYPE html><html><head></head><body><div class=\"chat-export\"><h1>Grok 4 Chat - ">>
        \o LocaleDateString(t) \o <<"</h1>">>
        \o ExportTurns(log)
        \o <<"</div></body></html>">>

\* App.vue:203
ExportFilename(t) == <<"grok-chat-">> \o IsoDate(t) \o <<".html">>

\* App.vue:164-208 with 226: the Export button, disabled on an empty log.  The
\* file is kept with the log and the day it was made from.
exportChat ==
    /\ Len(messages) # 0
    /\ download' = Some([html |-> ExportHtml(messages, now),
                         filename |-> ExportFilename(now),
                         log |-> messages,
                         day |-> DayOf(now)])
    /\ UNCHANGED <<messages, currentMessage, isLoading, showApiKeyModal, apiKey, useProxy,
                   localApiKey, localUseProxy, now, calls, remote, server>>

----------------------------------------------------------------------------
\* The forwarder, server.ts:30-70.

\* server.ts:32 and 38-51: the request sent upstream for a body that carries
\* a key.  The options of the body are spread after the three defaults.
UpstreamRequest(body) ==
    [url |-> XaiUrl,
     method |-> "POST",
     authorization |-> Some(<<"Bearer ">> \o body.apiKey[1]),
     body |-> [apiKey |-> None,
               messages |-> body.messages,
               model |-> IF body.model # None THEN body.model ELSE Some("grok-4"),
               stream |-> IF body.stream # None THEN body.stream ELSE Some(FALSE),
               temperature |-> IF body.temperature # None THEN body.temperature
                               ELSE Some("0.7")]]

\* The bodies a caller of POST /api/chat can send.
ServerBodies ==
    [apiKey : {None, Some(<<>>), Some(<<"k">>)},
     messages : {OutboundMessages(<<>>)},
     model : {None, Some("grok-4"), Some("grok-3")},
     stream : {None, Some(TRUE)},
     temperature : {None, Some("0.7"), Some("2")}]

\* server.ts:30-51: a request arrives; without a key it is answered at once
\* (34-36), else the upstream request is sent.
postChat ==
    /\ server = None
    /\ \E body \in ServerBodies :
         server' = Some([body |-> body,
                         upstream |-> IF Truthy(body.apiKey)
                                      THEN Some(UpstreamRequest(body)) ELSE None,
                         reply |-> IF Truthy(body.apiKey)
                                   THEN None ELSE Some(apiChat(body, NetFail))])
    /\ UNCHANGED <<messages, currentMessage, isLoading, showApiKeyModal, apiKey, useProxy,
                   localApiKey, localUseProxy, now, calls, remote, download>>

\* server.ts:38-69: the upstream fetch settles and the answer is written.
upstreamSettles ==
    /\ server # None
    /\ server[1].reply = None
    /\ server' = Some([server[1] EXCEPT !.reply = Some(apiChat(server[1].body, remote))])
    /\ UNCHANGED <<messages, currentMessage, isLoading, showApiKeyModal, apiKey, useProxy,
                   localApiKey, localUseProxy, now, calls, remote, download>>

\* The answer has been sent: the handler is done.
handlerReturns ==
    /\ server # None
    /\ server[1].reply # None
    /\ server' = None
    /\ UNCHANGED <<messages, currentMessage, isLoading, showApiKeyModal, apiKey, useProxy,
                   localApiKey, localUseProxy, now, calls, remote, download>>

----------------------------------------------------------------------------
\* The content renderer, ChatMessage.vue:33-88.  A character of the content
\* is one atom; a tag or an entity the renderer emits is one atom.

\* The emitted atoms that begin with "<".
TagAtoms ==
    { "<div class=\"code-block\">", "<div class=\"code-header\">", "</div><pre><code>",
      "</code></pre></div>", "<code class=\"inline-code\">", "</code>",
      "<h3>", "</h3>", "<h2>", "</h2>", "<h1>", "</h1>",
      "<strong>", "</strong>", "<em>", "</em>", "<blockquote>", "</blockquote>",
      "<div class=\"list-item numbered\">", "<div class=\"list-item bullet\">", "</div>",
      "<a href=\"", "</a>", "</p><p>", "<br>", "<p>", "</p>" }

\* Character classes of the regular expressions.
IsWord(c) == c \in {"a", "b", "h", "p", "s", "t", "x", "1", "_"}
IsDigit(c) == c \in {"0", "1", "2", "3", "4", "5", "6", "7", "8", "9"}
\* The atom of the backtick character.
BackTick == "[backtick]"
NotTick(c) == c # BackTick
NotStar(c) == c # "*"
NotNewline(c) == c # "\n"
UrlChar(c) == ~IsSpace(c) /\ c # "<" /\ c \notin TagAtoms

\* The first index at or after i whose atom is not in the class (Len + 1 if
\* there is none): where a greedy run that starts at i ends.
RunEnd(s, i, P(_)) ==
    LET E == {j \in i..Len(s) : ~P(s[j])}
    IN  IF E = {} THEN Len(s) + 1 ELSE CHOOSE j \in E : \A k \in E : j <= k

\* The literal t stands in s at index i.
StartsAt(s, i, t) ==
    i >= 1 /\ i + Len(t) - 1 <= Len(s) /\ SubSeq(s, i, i + Len(t) - 1) = t

\* ^ under the m flag
AtLineStart(s, i) == i = 1 \/ s[i - 1] = "\n"

Fence == <<BackTick, BackTick, BackTick>>

\* ChatMessage.vue:40-44: a fence, an optional language word, a newline, the
\* shortest text up to a newline and a fence.
RECURSIVE CodeBlocks(_, _)
CodeBlocks(s, i) ==
    IF i > Len(s) THEN <<>>
    ELSE LET k == RunEnd(s, i + 3, IsWord)
             J == {j \in (k + 1)..Len(s) : s[j] = "\n" /\ StartsAt(s, j + 1, Fence)}
             j == CHOOSE x \in J : \A y \in J : x <= y
         IN  IF StartsAt(s, i, Fence) /\ k <= Len(s) /\ s[k] = "\n" /\ J # {}
             THEN <<"<div class=\"code-block\">", "<div class=\"code-header\">">>
                      \o (IF k > i + 3 THEN SubSeq(s, i + 3, k - 1) ELSE <<"code">>)
                      \o <<"</div><pre><code>">>
                      \o Trim(SubSeq(s, k + 1, j - 1))
                      \o <<"</code></pre></div>">>
                      \o CodeBlocks(s, j + 4)
             ELSE <<s[i]>> \o CodeBlocks(s, i + 1)

\* ChatMessage.vue:47: a backtick, one or more atoms that are not backticks,
\* a backtick.
RECURSIVE InlineCode(_, _)
InlineCode(s, i) ==
    IF i > Len(s) THEN <<>>
    ELSE LET j == RunEnd(s, i + 1, NotTick)
         IN  IF s[i] = BackTick /\ j > i + 1 /\ j <= Len(s)
             THEN <<"<code class=\"inline-code\">">> \o SubSeq(s, i + 1, j - 1)
                      \o <<"</code>">> \o InlineCode(s, j + 1)
             ELSE <<s[i]>> \o InlineCode(s, i + 1)

\* ChatMessage.vue:50-52 and 61: a line that begins with the prefix becomes
\* its rest between the two tags.
RECURSIVE LineRule(_, _, _, _, _)
LineRule(s, i, prefix, open, close) ==
    IF i > Len(s) THEN <<>>
    ELSE IF AtLineStart(s, i) /\ StartsAt(s, i, prefix)
    THEN LET e == RunEnd(s, i + Len(prefix), NotNewline)
         IN  <<open>> \o SubSeq(s, i + Len(prefix), e - 1) \o <<close>>
                 \o LineRule(s, e, prefix, open, close)
    ELSE <<s[i]>> \o LineRule(s, i + 1, prefix, open, close)

\* ChatMessage.vue:55: two stars, the shortest text without a newline, two
\* stars.
RECURSIVE Bold(_, _)
Bold(s, i) ==
    IF i > Len(s) THEN <<>>
    ELSE LET e == RunEnd(s, i + 2, NotNewline)
             J == {j \in (i + 2)..(e - 1) : StartsAt(s, j, <<"*", "*">>)}
             j == CHOOSE x \in J : \A y \in J : x <= y
         IN  IF StartsAt(s, i, <<"*", "*">>) /\ J # {}
             THEN <<"<strong>">> \o SubSeq(s, i + 2, j - 1) \o <<"</strong>">>
                      \o Bold(s, j + 2)
             ELSE <<s[i]>> \o Bold(s, i + 1)

\* ChatMessage.vue:58: a star not after a star, one or more atoms that are
\* not stars, a star not before a star.
RECURSIVE Italic(_, _)
Italic(s, i) ==
    IF i > Len(s) THEN <<>>
    ELSE LET j == RunEnd(s, i + 1, NotStar)
         IN  IF /\ s[i] = "*"
                /\ (i = 1 \/ s[i - 1] # "*")
                /\ j > i + 1 /\ j <= Len(s)
                /\ (j = Len(s) \/ s[j + 1] # "*")
             THEN <<"<em>">> \o SubSeq(s, i + 1, j - 1) \o <<"</em>">> \o Italic(s, j + 1)
             ELSE <<s[i]>> \o Italic(s, i + 1)

\* ChatMessage.vue:64: at a line start digits, a dot, white space, the rest
\* of the line.
RECURSIVE Numbered(_, _)
Numbered(s, i) ==
    IF i > Len(s) THEN <<>>
    ELSE LET d == RunEnd(s, i, IsDigit)
             w == RunEnd(s, d + 1, IsSpace)
             e == RunEnd(s, w, NotNewline)
         IN  IF AtLineStart(s, i) /\ d > i /\ d <= Len(s) /\ s[d] = "." /\ w > d + 1
             THEN <<"<div class=\"list-item numbered\">">> \o SubSeq(s, i, d - 1)
                      \o <<".", " ">> \o SubSeq(s, w, e - 1) \o <<"</div>">>
                      \o Numbered(s, e)
             ELSE <<s[i]>> \o Numbered(s, i + 1)

\* ChatMessage.vue:67: at a line start a dash or a star, white space, the
\* rest of the line.
RECURSIVE Bullets(_, _)
Bullets(s, i) ==
    IF i > Len(s) THEN <<>>
    ELSE LET w == RunEnd(s, i + 1, IsSpace)
             e == RunEnd(s, w, NotNewline)
         IN  IF AtLineStart(s, i) /\ s[i] \in {"-", "*"} /\ w > i + 1
             THEN <<"<div class=\"list-item bullet\">", "&bull;", " ">>
                      \o SubSeq(s, w, e - 1) \o <<"</div>">> \o Bullets(s, e)
             ELSE <<s[i]>> \o Bullets(s, i + 1)

Http == <<"h", "t", "t", "p", ":", "/", "/">>
Https == <<"h", "t", "t", "p", "s", ":", "/", "/">>
LinkTail == "\" target=\"_blank\" rel=\"noopener noreferrer\">"

\* ChatMessage.vue:70: the scheme, then one or more atoms that are neither
\* white space nor "<"; the match is written into href and into the text.
RECURSIVE AutoLink(_, _)
AutoLink(s, i) ==
    IF i > Len(s) THEN <<>>
    ELSE LET p == IF StartsAt(s, i, Http) THEN Len(Http)
                  ELSE IF StartsAt(s, i, Https) THEN Len(Https) ELSE 0
             e == RunEnd(s, i + p, UrlChar)
             url == SubSeq(s, i, e - 1)
         IN  IF p > 0 /\ e > i + p
             THEN <<"<a href=\"">> \o url \o <<LinkTail>> \o url \o <<"</a>">>
                      \o AutoLink(s, e)
             ELSE <<s[i]>> \o AutoLink(s, i + 1)

\* ChatMessage.vue:73
RECURSIVE Paragraphs(_, _)
Paragraphs(s, i) ==
    IF i > Len(s) THEN <<>>
    ELSE IF StartsAt(s, i, <<"\n", "\n">>) THEN <<"</p><p>">> \o Paragraphs(s, i + 2)
    ELSE <<s[i]>> \o Paragraphs(s, i + 1)

\* ChatMessage.vue:74
Breaks(s) == [i \in 1..Len(s) |-> IF s[i] = "\n" THEN "<br>" ELSE s[i]]

\* ChatMessage.vue:77-85
Wrap(s) ==
    IF \E i \in DOMAIN s :
           s[i] \in {"<h1>", "<h2>", "<h3>", "<div class=\"code-block\">", "<blockquote>"}
    THEN s
    ELSE <<"<p>">> \o s \o <<"</p>">>

\* ChatMessage.vue:37: the three replacements, & first.
EscapeHtml(s) ==
    [i \in 1..Len(s) |->
        CASE s[i] = "&" -> "&amp;"
          [] s[i] = "<" -> "&lt;"
          [] s[i] = ">" -> "&gt;"
          [] OTHER -> s[i]]

\* ChatMessage.vue:33-88: the rules in the order of the source.
formattedContent(content) ==
    LET c1 == EscapeHtml(content)
        c2 == InlineCode(CodeBlocks(c1, 1), 1)
        c3 == LineRule(c2, 1, <<"#", "#", "#", " ">>, "<h3>", "</h3>")
        c4 == LineRule(c3, 1, <<"#", "#", " ">>, "<h2>", "</h2>")
        c5 == LineRule(c4, 1, <<"#", " ">>, "<h1>", "</h1>")
        c6 == Italic(Bold(c5, 1), 1)
        c7 == LineRule(c6, 1, <<">", " ">>, "<blockquote>", "</blockquote>")
        c8 == Bullets(Numbered(c7, 1), 1)
        c9 == AutoLink(c8, 1)
    IN  Wrap(Breaks(Paragraphs(c9, 1)))

\* ChatMessage.vue:109: the markup shown for each turn of the log (v-html of
\* the computed value).
view == [i \in DOMAIN messages |-> formattedContent(messages[i].content)]

----------------------------------------------------------------------------
\* Time passes between two handlers.
Tick ==
    /\ now < MaxClock
    /\ now' = now + 1
    /\ UNCHANGED <<messages, currentMessage, isLoading, showApiKeyModal, apiKey, useProxy,
                   localApiKey, localUseProxy, calls, remote, download, server>>

\* App.vue:14-22, 210-213 and 527-528: the state after the page is mounted.
Init ==
    /\ messages = <<>>
    /\ currentMessage = <<>>
    /\ isLoading = FALSE
    /\ apiKey \in StoredKeys
    /\ useProxy \in BOOLEAN
    /\ showApiKeyModal = (Trim(apiKey) = <<>>)
    /\ localApiKey = apiKey
    /\ localUseProxy = useProxy
    /\ now = 0
    /\ calls = <<>>
    /\ remote \in UpstreamOutcomes
    /\ download = None
    /\ server = None

Next ==
    \/ sendMessage
    \/ handleKeydown
    \/ clickSend
    \/ inputDraft
    \/ \E i \in 1..Len(calls) : fetchSettles(i)
    \/ \E i \in 1..Len(calls) : textSettles(i)
    \/ \E i \in 1..Len(calls) : jsonSettles(i)
    \/ clearChat
    \/ openSettings
    \/ inputKey
    \/ toggleProxy
    \/ closeModal
    \/ clickSave
    \/ keydownEnterKey
    \/ Tick

Spec == Init /\ [][Next]_vars

----------------------------------------------------------------------------
\* Properties.

Appended(old, new) ==
    Len(new) = Len(old) + 1 /\ SubSeq(new, 1, Len(old)) = old
AssistantCount(log) == Cardinality({i \in DOMAIN log : log[i].role = "assistant"})

\* C1: at most one completion request is outstanding at any time, and the
\* in-flight flag is set exactly while it is; whatever the interleaving of
\* sends, Enter presses, clears and settings saves, no second request is
\* dispatched while one is in flight.
C1_OneOutstanding ==
    /\ Len(calls) <= 1
    /\ isLoading <=> (Len(calls) = 1)

\* A request is in flight while the draft and the credential would allow a send.
C1_Witness ==
    /\ isLoading
    /\ Len(calls) = 1
    /\ Trim(currentMessage) # <<>>
    /\ Trim(apiKey) # <<>>

\* The precondition of send, spelled out.
SendPrecondition ==
    /\ Trim(currentMessage) # <<>>
    /\ ~isLoading
    /\ Trim(apiKey) # <<>>

\* C2: sendMessage with a blank draft, a request in flight or a blank stored
\* credential changes neither the turn log, the draft nor the in-flight flag
\* and dispatches no request.
C2_DeclinedSendIsNoOp ==
    [][(~SendPrecondition /\ sendMessage)
           => UNCHANGED <<messages, currentMessage, isLoading, calls>>]_vars

\* A draft is ready and nothing is in flight, but the stored credential is blank.
C2_Witness ==
    /\ Trim(currentMessage) # <<>>
    /\ ~isLoading
    /\ Trim(apiKey) = <<>>

\* C3: the step that ends a send appends exactly one assistant turn and clears
\* the in-flight flag, for every outcome; no other step adds an assistant turn.
C3_OneAssistantTurnPerSend ==
    [][IF Len(calls') < Len(calls)
       THEN /\ Len(calls') = Len(calls) - 1
            /\ Appended(messages, messages')
            /\ Last(messages').role = "assistant"
            /\ ~isLoading'
       ELSE AssistantCount(messages') <= AssistantCount(messages)]_vars

\* A send has completed on a success response whose body has no choices.
C3_Witness ==
    /\ calls = <<>>
    /\ ~isLoading
    /\ messages # <<>>
    /\ Last(messages).role = "assistant"
    /\ Includes(Last(messages).content, <<"Cannot read properties of undefined">>)

\* C4: when the body of a non-success response is a JSON object with an error
\* field e, the send ends with exactly one new assistant turn whose content
\* contains the status and e.
C4_ErrorTurnHasStatusAndError ==
    [][\A i \in 1..Len(calls) :
         (/\ calls[i].pc = "text"
          /\ calls' = Remove(calls, i)
          /\ calls[i].resp.body.kind = "obj"
          /\ calls[i].resp.body.error # None)
         => /\ Appended(messages, messages')
            /\ Last(messages').role = "assistant"
            /\ Includes(Last(messages').content, NumStr(calls[i].resp.status))
            /\ Includes(Last(messages').content, calls[i].resp.body.error[1])]_vars

\* The log ends with the turn for status 401 and body {"error":"bad key"}.
C4_Witness ==
    /\ messages # <<>>
    /\ Last(messages).role = "assistant"
    /\ Includes(Last(messages).content, <<"API Error: ", "401">>)
    /\ Includes(Last(messages).content, <<" - ", "b", "a", "d", " ", "k", "e", "y">>)

\* C5: the turn for a non-success response contains the status, the status
\* text and every error detail the server supplied: the error field, the
\* details field (where the forwarder relays the upstream body) or the raw text.
C5_ErrorTurnHasEveryDetail ==
    [][\A i \in 1..Len(calls) :
         (calls[i].pc = "text" /\ calls' = Remove(calls, i))
         => LET r == calls[i].resp
                c == Last(messages').content
            IN  /\ Includes(c, NumStr(r.status))
                /\ Includes(c, r.statusText)
                /\ r.body.kind = "raw" => Includes(c, r.body.raw)
                /\ r.body.error # None => Includes(c, r.body.error[1])
                /\ r.body.details # None => Includes(c, r.body.details[1])]_vars

\* C6: every step leaves the log unchanged, appends one turn at its end, or
\* empties it; and only the clear action empties it.
C6_AppendOrClearOnly ==
    [][\/ messages' = messages
       \/ Appended(messages, messages')
       \/ (messages' = <<>> /\ clearChat)]_vars

\* The log starts with an assistant turn: it was cleared while the request was
\* in flight, and the reply was appended to the emptied log.
C6_Witness ==
    /\ Len(messages) >= 2
    /\ messages[1].role = "assistant"

\* C7: no two turns of the log have the same id.
C7_UniqueIds ==
    \A i, j \in DOMAIN messages : i # j => messages[i].id # messages[j].id

\* C8: clearing empties the log and leaves the stored credential and the
\* stored forwarder preference as they were.
C8_ClearKeepsSettings ==
    [][clearChat => (messages' = <<>> /\ apiKey' = apiKey /\ useProxy' = useProxy)]_vars

\* The log is empty while a request is in flight, so it was cleared; a
\* credential and the forwarder preference are stored.
C8_Witness ==
    /\ messages = <<>>
    /\ isLoading
    /\ apiKey # <<>>
    /\ useProxy

\* C9: the message list of a dispatched request is the system entry (present
\* when the system prompt is not blank) followed by the role and content of
\* every turn of the log at dispatch, in order, the last being the user turn
\* this send appended.
C9_FullHistorySent ==
    [][Len(calls') > Len(calls)
       => LET out == Last(calls').req.body.messages
              sys == IF Trim(SystemPrompt) # <<>> THEN 1 ELSE 0
          IN  /\ Appended(messages, messages')
              /\ Last(messages').role = "user"
              /\ Last(messages').content = Trim(currentMessage)
              /\ Len(out) = sys + Len(messages')
              /\ sys = 1 => out[1] = [role |-> "system", content |-> SystemPrompt]
              /\ \A k \in 1..Len(messages') :
                   out[sys + k] = [role |-> messages'[k].role,
                                   content |-> messages'[k].content]
              /\ Last(out) = [role |-> "user", content |-> Trim(currentMessage)]]_vars

\* A request in flight carries a system entry, an assistant turn and a user turn.
C9_Witness ==
    /\ Len(calls) = 1
    /\ Len(calls[1].req.body.messages) = 3
    /\ calls[1].req.body.messages[2].role = "assistant"
    /\ calls[1].req.body.messages[3].role = "user"

\* C10: an accepted send dispatches exactly one request: to the forwarder
\* endpoint with the credential in the body and no authorization header if
\* the forwarder preference is set, else to the remote completion endpoint
\* with the credential as bearer header and not in the body.
C10_OneRequestOnChosenPath ==
    [][(Appended(messages, messages') /\ Last(messages').role = "user")
       => /\ Len(calls') = Len(calls) + 1
          /\ SubSeq(calls', 1, Len(calls)) = calls
          /\ LET req == Last(calls').req
             IN  IF useProxy
                 THEN /\ req.url \in {ProxyUrlProd, ProxyUrlDev}
                      /\ req.authorization = None
                      /\ req.body.apiKey = Some(apiKey)
                 ELSE /\ req.url = XaiUrl
                      /\ req.authorization = Some(<<"Bearer ">> \o apiKey)
                      /\ req.body.apiKey = None]_vars

\* A request to the forwarder is in flight with the credential in its body.
C10_Witness ==
    /\ Len(calls) = 1
    /\ calls[1].req.url \in {ProxyUrlProd, ProxyUrlDev}
    /\ calls[1].req.body.apiKey = Some(<<"k">>)

\* C11: the stored key is sent to no server but xAI's API: every request that
\* carries the key, in a header or in its body, goes to the xAI endpoint.
C11_KeyOnlyToXai ==
    \A i \in DOMAIN calls :
        (calls[i].req.authorization # None \/ calls[i].req.body.apiKey # None)
            => calls[i].req.url = XaiUrl

\* C16: the turn of a failed send carries the forwarder hint exactly when the
\* request of that send was dispatched on the direct path, whatever the
\* settings dialog saved while it was in flight.
C16_HintFollowsDispatchPath ==
    [][\A i \in 1..Len(calls) :
         (/\ calls' = Remove(calls, i)
          /\ Appended(messages, messages')
          /\ Head(Last(messages').content) = "Sorry, I encountered an error: ")
         => (Includes(Last(messages').content, ProxyHint)
                <=> calls[i].req.url = XaiUrl)]_vars

\* C19: every assistant turn of the log has its user turn before it: no
\* prefix of the log holds more assistant turns than user turns.
C19_AssistantAfterUser ==
    \A n \in 0..Len(messages) :
        AssistantCount(SubSeq(messages, 1, n))
            <= Cardinality({i \in 1..n : messages[i].role = "user"})

\* C20: a settings save stores a trimmed, non-empty key, and closing the
\* dialog without saving leaves the stored key and preference as they were.
C20_SaveNeverStoresBlank ==
    [][/\ (saveApiKey /\ apiKey' # apiKey) => (apiKey' = Trim(apiKey') /\ apiKey' # <<>>)
       /\ closeModal => UNCHANGED <<apiKey, useProxy>>]_vars

----------------------------------------------------------------------------
\* A restart of the page.

\* App.vue:14-22, 210-213 and 527-528 run again: the refs start from their
\* literals, the two useStorage values are read back from localStorage, and
\* the continuations of the old page are gone.
reload ==
    /\ messages' = <<>>
    /\ currentMessage' = <<>>
    /\ isLoading' = FALSE
    /\ showApiKeyModal' = (Trim(apiKey) = <<>>)
    /\ localApiKey' = apiKey
    /\ localUseProxy' = useProxy
    /\ calls' = <<>>
    /\ UNCHANGED <<apiKey, useProxy, now, remote, server>>
    /\ download' = None

NextReload == Next \/ reload

SpecReload == Init /\ [][NextReload]_vars

\* C13: the turn log is durable: a restart of the page leaves the log, like
\* the stored credential and forwarder preference, as it was before.
C13_LogSurvivesReload ==
    [][reload => (messages' = messages /\ apiKey' = apiKey /\ useProxy' = useProxy)]_vars

----------------------------------------------------------------------------
\* The transport settles every promise sendMessage awaits: the fetch resolves
\* or rejects, and the body of a response is read.

Settles ==
    \/ \E i \in 1..Len(calls) : fetchSettles(i)
    \/ \E i \in 1..Len(calls) : textSettles(i)
    \/ \E i \in 1..Len(calls) : jsonSettles(i)

\* The handlers of the chat itself; the settings dialog, which touches
\* neither the flag nor the log, is left alone.
NextLive ==
    \/ sendMessage
    \/ handleKeydown
    \/ clickSend
    \/ inputDraft
    \/ Settles
    \/ clearChat
    \/ Tick

SpecLive == Init /\ [][NextLive]_vars /\ WF_vars(Settles)

\* C17: every dispatched send completes: a state with the in-flight flag set
\* leads to a state with the flag cleared, the log ending with an assistant
\* turn and no request outstanding, so that a further send is accepted.
C17_SendCompletes ==
    isLoading ~> (/\ ~isLoading
                  /\ calls = <<>>
                  /\ messages # <<>>
                  /\ Last(messages).role = "assistant")

\* A send has completed on a rejected fetch and the next draft is ready.
C17_Witness ==
    /\ ~isLoading
    /\ messages # <<>>
    /\ Last(messages).role = "assistant"
    /\ Includes(Last(messages).content, <<"Failed to fetch">>)
    /\ canSend

----------------------------------------------------------------------------
\* The export on a page that holds a log.

\* Logs the page can hold when the Export button is pressed: free text of
\* the user (markup, the key itself) and of the remote model.
ExportLogs ==
    { <<UserTurn(0, <<"h", "i">>)>>,
      <<UserTurn(0, <<"h", "i">>), AssistantTurn(0, <<"h", "e", "y">>)>>,
      <<UserTurn(0, <<"<", "b", ">">>), AssistantTurn(0, <<"a", "&", "b">>)>>,
      <<UserTurn(0, <<"k">>), ErrorTurn(0, <<"Failed to fetch">>, FALSE)>> }

InitExport ==
    /\ messages \in ExportLogs
    /\ currentMessage = <<>>
    /\ isLoading = FALSE
    /\ apiKey \in StoredKeys
    /\ useProxy \in BOOLEAN
    /\ showApiKeyModal = FALSE
    /\ localApiKey = apiKey
    /\ localUseProxy = useProxy
    /\ now = 0
    /\ calls = <<>>
    /\ remote = NetFail
    /\ download = None
    /\ server = None

\* A day passes between two handlers.
DayPasses ==
    /\ DayOf(now) = 0
    /\ now' = now + 86400000
    /\ UNCHANGED <<messages, currentMessage, isLoading, showApiKeyModal, apiKey, useProxy,
                   localApiKey, localUseProxy, calls, remote, download, server>>

NextExport ==
    \/ exportChat
    \/ clearChat
    \/ openSettings
    \/ inputKey
    \/ toggleProxy
    \/ closeModal
    \/ clickSave
    \/ keydownEnterKey
    \/ Tick
    \/ DayPasses

SpecExport == InitExport /\ [][NextExport]_vars

\* C12: the exported document never holds the stored credential (unless a
\* turn of the log itself does), and the export depends on the log and the
\* date only: an export of the same log on the same day as the last one gives
\* the same document and the same filename, whatever happened to the stored
\* key in between.
C12_ExportIgnoresKey ==
    /\ [](download # None /\ apiKey # <<>> /\ Includes(download[1].html, apiKey)
            => \E i \in DOMAIN download[1].log :
                   Includes(download[1].log[i].content, apiKey))
    /\ [][(exportChat /\ download # None
              /\ download[1].log = messages /\ download[1].day = DayOf(now))
            => (/\ download'[1].html = download[1].html
                /\ download'[1].filename = download[1].filename)]_vars

\* A file was exported, then a key was stored that no turn holds.
C12_Witness ==
    /\ download # None
    /\ download[1].log = messages
    /\ apiKey = <<"k">>
    /\ localApiKey = <<"k">>
    /\ ~showApiKeyModal
    /\ ~Includes(download[1].html, apiKey)
    /\ now = 1

RECURSIVE EscapedTurns(_)
EscapedTurns(log) ==
    IF log = <<>> THEN <<>>
    ELSE ExportTurn([Head(log) EXCEPT !.content = EscapeHtml(Head(log).content)])
             \o EscapedTurns(Tail(log))

\* C15: the exported document holds every turn of the log, in log order, with
\* its role, its content HTML-escaped and its timestamp, and no raw character
\* of a turn's content that is an HTML metacharacter.
C15_ExportEscapesContent ==
    download # None
        => /\ Includes(download[1].html, EscapedTurns(download[1].log))
           /\ \A i \in DOMAIN download[1].html : download[1].html[i] \notin {"<", ">", "&"}

----------------------------------------------------------------------------
\* The forwarder on its own.

NextServer ==
    \/ postChat
    \/ upstreamSettles
    \/ handlerReturns

SpecServer == Init /\ [][NextServer]_vars

\* C14: for every body that POST /api/chat accepts, whatever options it
\* carries, the request sent upstream has the model "grok-4" and the header
\* Authorization: Bearer <apiKey>.
C14_FixedModelAndBearer ==
    (server # None /\ server[1].upstream # None)
        => /\ server[1].upstream[1].body.model = Some("grok-4")
           /\ server[1].upstream[1].authorization
                  = Some(<<"Bearer ">> \o server[1].body.apiKey[1])

----------------------------------------------------------------------------
\* The renderer on the turns of a conversation.

\* Fragments of text that the remote model can answer with.
RenderPieces ==
    { Http \o <<"a">>, <<"\"">>, <<"x">>, <<" ">>, <<"\n">>, <<"<", "b", ">">>, <<"&">>,
      <<"*", "*", "x", "*", "*">>, <<"*", "x", "*">>, <<BackTick, "x", BackTick>>,
      <<"#", " ", "x">>, <<"#", "#", " ", "x">>, <<"#", "#", "#", " ", "x">>,
      <<">", " ", "x">>, <<"1", ".", " ", "x">>, <<"-", " ", "x">>,
      Fence \o <<"\n", "<", "\n">> \o Fence }

RECURSIVE Concat(_)
Concat(ps) == IF ps = <<>> THEN <<>> ELSE Head(ps) \o Concat(Tail(ps))

\* The answers of up to MaxPieces fragments.
RenderInputs ==
    {Concat(ps) : ps \in UNION {[1..n -> RenderPieces] : n \in 1..MaxPieces}}

\* A mounted page with a stored key and a draft; the remote model answers
\* with one of the texts.
InitRender ==
    /\ messages = <<>>
    /\ currentMessage = <<" ", "h", "i", " ">>
    /\ isLoading = FALSE
    /\ apiKey = <<"k">>
    /\ useProxy \in BOOLEAN
    /\ showApiKeyModal = FALSE
    /\ localApiKey = apiKey
    /\ localUseProxy = useProxy
    /\ now = 0
    /\ calls = <<>>
    /\ remote \in {Response(200, <<"OK">>, Obj(None, None, Some(c))) : c \in RenderInputs}
    /\ download = None
    /\ server = None

NextRender ==
    \/ sendMessage
    \/ \E i \in 1..Len(calls) : fetchSettles(i)
    \/ \E i \in 1..Len(calls) : jsonSettles(i)
    \/ clearChat

SpecRender == InitRender /\ [][NextRender]_vars

NotLinkTail(c) == c # LinkTail

\* Markup in which no character of the content opens or closes a tag, or
\* ends the value of the href attribute that it was written into.
Safe(out) ==
    /\ \A i \in DOMAIN out : out[i] \notin {"<", ">"}
    /\ \A i \in DOMAIN out :
         out[i] = "<a href=\""
             => \A k \in (i + 1)..(RunEnd(out, i + 1, NotLinkTail) - 1) : out[k] # "\""

\* C18: the markup shown for a turn is safe for display: the tags and the
\* attributes in it are those the rules of the renderer emit, and no content
\* (the text matched by the URL rule included) adds a tag or an attribute.
C18_RenderedSafe ==
    \A i \in DOMAIN view : Safe(view[i])

====
